---- MODULE Spec2Model ----
(***************************************************************************)
(* midnight-wallet-cli: the transfer orchestrator (executeTransfer,        *)
(* lib/transfer.ts), the balance subscription (checkBalance,               *)
(* lib/balance-subscription.ts), the network resolution chain              *)
(* (lib/resolve-network.ts), the output capture of the MCP server          *)
(* (lib/run-command.ts) and the dust command (commands/dust.ts) as state   *)
(* machines.                                                               *)
(*                                                                         *)
(* Spec        one run of executeTransfer against a nondeterministic       *)
(*             wallet facade, with an abort signal that may fire anywhere  *)
(* SpecBalance one checkBalance session against a nondeterministic         *)
(*             indexer socket                                              *)
(* SpecReorder two checkBalance folds fed with two delivery orders of the  *)
(*             same frames                                                 *)
(* SpecAmount  one call of nightToMicro                                    *)
(* SpecNetwork one call of resolveNetworkName                              *)
(* SpecCapture invocations of captureCommand that follow one another       *)
(* SpecOverlap invocations of captureCommand that may overlap              *)
(* SpecFold    the frame handler of checkBalance applied to a few frames   *)
(* SpecDust    one run of dustCommand, with an abort signal that may fire  *)
(*             anywhere                                                    *)
(***************************************************************************)
EXTENDS Integers, Sequences, FiniteSets, TLC

(***************************************************************************)
(* Bounds of the model                                                     *)
(***************************************************************************)
MaxAmount == 2
MaxBalance == 3
MaxFrames == 3
MaxTxId == 3
MaxCoins == 1

(***************************************************************************)
(* Program constants (lib/constants.ts)                                    *)
(***************************************************************************)
MAX_RETRY_ATTEMPTS == 3
STALE_UTXO_ERROR_CODE == 115

(***************************************************************************)
(* Errors.  An error is a record of its numeric code (0: none) and its     *)
(* message; the messages are the ones thrown by transfer.ts and classes of *)
(* messages the facade can throw.                                          *)
(***************************************************************************)
Err(c, m) == [code |-> c, msg |-> m]

CancelledError == Err(0, "Operation cancelled")
InsufficientBalanceError == Err(0, "Insufficient balance")
AmountError == Err(0, "Amount must be greater than 0")
RecipientError == Err(0, "Invalid recipient address")
ProofTimeoutError == Err(0, "ZK proof generation timed out")
RxTimeoutError == Err(0, "Timeout has occurred")
FacadeError == Err(0, "facade failure")
StopError == Err(0, "stop failure")

\* what the facade can throw from a build/sign/prove/submit call
FacadeErrors ==
  { Err(STALE_UTXO_ERROR_CODE, "Transaction rejected"),
    Err(0, "stale utxo"),
    Err(0, "Custom error: 115"),
    Err(1, "Invalid Transaction"),
    FacadeError }

\* String.prototype.includes('115') on the messages of the model
Includes115(m) == m \in {"Custom error: 115"}

\* message.toLowerCase().includes('stale') on the messages of the model
IncludesStale(m) == m \in {"stale utxo"}

isStaleUtxo(err) ==
  \/ err.code = STALE_UTXO_ERROR_CODE
  \/ Includes115(err.msg)
  \/ IncludesStale(err.msg)

NoOutcome == [kind |-> "none"]
Resolved == [kind |-> "TransferResult"]
Rejected(err) == [kind |-> "error", err |-> err]

VARIABLES
  pc,               \* where executeTransfer is suspended
  hasSignal,        \* params.signal was supplied
  aborted,          \* signal.aborted
  listening,        \* onAbort is registered on the signal
  amount,           \* nightToMicro(amountNight), minor units
  unshieldedBalance, \* the local of that name (read after the first checkpoint); -1: not read
  suppressing,      \* the unhandledRejection handler is installed
  shutdownComplete, \* the flag of cleanup()
  stopCalls,        \* calls of stopFacade(bundle)
  stopInFlight,     \* a stopFacade promise has not settled yet
  pending,          \* outcome being carried through the finally block
  outcome,          \* how the promise of executeTransfer settled
  attempt,          \* loop counter of buildAndSubmitTransfer (0: loop not entered)
  attemptErrs,      \* the error caught in each attempt so far
  calls,            \* number of calls of each facade operation
  proofTimers,      \* proof-timeout timers still pending
  abortedAt,        \* history: the value of pc when the abort event fired
  dustEnsured,      \* history: ensureDust returned normally
  dustSeen,         \* history: the coins in the state read by ensureDust
  stopFailed,       \* history: a stopFacade promise rejected
  syncResult        \* history: how the initial synchronization ended

tvars == << pc, hasSignal, aborted, listening, amount, unshieldedBalance, suppressing,
            shutdownComplete, stopCalls, stopInFlight, pending, outcome,
            attempt, attemptErrs, calls, proofTimers, abortedAt, dustEnsured,
            dustSeen, stopFailed, syncResult >>

VARIABLES
  session,          \* the closure state of one checkBalance call and its socket
  framesDelivered,  \* number of subscription frames delivered so far
  txFrames,         \* history: transaction frames handled before the outcome
  progFrames,       \* history: progress frames handled before the outcome
  scen,             \* history: the stream so far is P(n), T(1), .., T(k)
  failureEvent      \* history: the first failure event before the outcome

bvars == << session, framesDelivered, txFrames, progFrames, scen, failureEvent >>

VARIABLES
  orderA, orderB,   \* two delivery orders of the same frames
  runA, runB        \* the checkBalance state fed with orderA, with orderB

rvars == << orderA, orderB, runA, runB >>

VARIABLES
  amountNight,      \* the argument of a call of nightToMicro
  microResult       \* what that call returned or threw

avars == << amountNight, microResult >>

VARIABLES
  ctx,              \* the argument of a call of resolveNetworkName, with the config file
  netResult         \* what that call returned or threw

nvars == << ctx, netResult >>

VARIABLES
  stderrWrite,      \* the function installed as process.stderr.write
  captureTarget,    \* the module variable of lib/json-output.ts (0: null)
  cap,              \* the invocations of captureCommand
  stdoutLog         \* the JSON texts written to the real stdout

cvars == << stderrWrite, captureTarget, cap, stdoutLog >>

xvars == << avars, nvars, cvars >>

VARIABLES
  fold,             \* the closure state of a checkBalance call fed frame by frame
  prevFold,         \* history: fold before the last frame
  lastFrame,        \* history: the last frame fed
  ignoredSpends,    \* history: the identities spent while absent from the working set
  folded            \* number of frames fed

fvars == << fold, prevFold, lastFrame, ignoredSpends, folded >>

VARIABLES
  dustPc,           \* where dustCommand is suspended
  subcommand,       \* args.subcommand
  dustHasSignal,    \* the signal argument was supplied
  dustAborted,      \* signal.aborted
  dustListening,    \* onAbort of dustCommand is registered on the signal
  dustBuilt,        \* buildFacade returned the bundle
  dustStopCalls,    \* calls of stopFacade(bundle) made by dustCommand
  abortStop,        \* the stopFacade promise of the abort listener is pending
  finalStop,        \* the stopFacade promise of the finally block is pending
  dustPending,      \* outcome being carried through the finally block
  dustOutcome       \* how the promise of dustCommand settled

dvars == << dustPc, subcommand, dustHasSignal, dustAborted, dustListening, dustBuilt,
            dustStopCalls, abortStop, finalStop, dustPending, dustOutcome >>

yvars == << fvars, dvars >>

vars == << tvars, bvars, rvars, xvars, yvars >>

(***************************************************************************)
(* checkBalance (lib/balance-subscription.ts): the closure state and the   *)
(* handlers as functions of it                                             *)
(***************************************************************************)

NATIVE_TOKEN_TYPE == "NIGHT"

\* the UTXOs the indexer can report: intentHash:outputIndex, value, tokenType
UtxoPool ==
  { [key |-> "a:0", value |-> 1, tokenType |-> NATIVE_TOKEN_TYPE],
    [key |-> "a:1", value |-> 2, tokenType |-> NATIVE_TOKEN_TYPE],
    [key |-> "b:0", value |-> 5, tokenType |-> "TOKEN"] }

UtxoKeys == { u.key : u \in UtxoPool }

\* createdUtxos and spentUtxos of a transaction frame
CreatedLists ==
  { << >> } \cup { << u >> : u \in UtxoPool }
    \cup { << u, v >> : u \in { x \in UtxoPool : x.key = "a:0" },
                        v \in { x \in UtxoPool : x.key # "a:0" } }

SpentLists == { << >> } \cup { << k >> : k \in UtxoKeys }

TxFramePool ==
  [ id : 1..MaxTxId, createdUtxos : CreatedLists, spentUtxos : SpentLists ]

NoResult == [kind |-> "none"]

\* the state of a new checkBalance call: the socket is connecting, the timer armed
NewSession ==
  [ utxos |-> << >>,
    txCount |-> 0,
    highestTxId |-> 0,
    lastSeenTxId |-> 0,
    progressReceived |-> FALSE,
    settled |-> FALSE,
    timer |-> "armed",
    wsState |-> "connecting",
    log |-> << >>,
    outcome |-> NoResult,
    onProgressCount |-> 0,
    onProgressLast |-> << 0, 0 >>,
    onProgressSawSettled |-> FALSE ]

Max(x, y) == IF x >= y THEN x ELSE y

\* utxos.set(key, {value, tokenType, spent: false})
MapSet(m, k, v) == [ x \in DOMAIN m \cup {k} |-> IF x = k THEN v ELSE m[x] ]

\* for (const utxo of tx.createdUtxos) utxos.set(...)
RECURSIVE ApplyCreated(_, _)
ApplyCreated(m, created) ==
  IF created = << >>
    THEN m
    ELSE ApplyCreated(
           MapSet(m, Head(created).key,
                  [ value |-> Head(created).value,
                    tokenType |-> Head(created).tokenType,
                    spent |-> FALSE ]),
           Tail(created))

\* existing = utxos.get(key); if (existing) existing.spent = true
SpendOneRemembered(m, k) ==
  IF k \in DOMAIN m
    THEN [ m EXCEPT ![k].spent = TRUE ]
    ELSE MapSet(m, k, [ value |-> 0, tokenType |-> NATIVE_TOKEN_TYPE, spent |-> TRUE ])
SpendOne(m, k) ==
  IF k \in DOMAIN m
    THEN [ m EXCEPT ![k].spent = TRUE ]
    ELSE m

\* for (const utxo of tx.spentUtxos) { ... }
RECURSIVE ApplySpent(_, _)
ApplySpent(m, spent) ==
  IF spent = << >>
    THEN m
    ELSE ApplySpent(SpendOne(m, Head(spent)), Tail(spent))

\* buildResult: if (!utxo.spent) the UTXO is counted
CountedAll(u) == TRUE
Counted(u) == ~u.spent

\* buildResult: the loop over utxos.values()
RECURSIVE BuildFold(_, _, _)
BuildFold(m, keys, acc) ==
  IF keys = {}
    THEN acc
    ELSE LET k == CHOOSE x \in keys : TRUE
             u == m[k]
         IN  BuildFold(m, keys \ {k},
               IF Counted(u)
                 THEN [ balances |->
                          MapSet(acc.balances, u.tokenType,
                                 (IF u.tokenType \in DOMAIN acc.balances
                                    THEN acc.balances[u.tokenType] ELSE 0) + u.value),
                        utxoCount |-> acc.utxoCount + 1 ]
                 ELSE acc)

buildResult(s) ==
  LET r == BuildFold(s.utxos, DOMAIN s.utxos, [ balances |-> << >>, utxoCount |-> 0 ])
  IN  [ balances |-> r.balances, utxoCount |-> r.utxoCount,
        txCount |-> s.txCount, highestTxId |-> s.highestTxId ]

\* settle(): clearTimeout(timeoutId)
settle(s) == [ s EXCEPT !.timer = IF @ = "armed" THEN "cleared" ELSE @ ]

\* ws.send(message)
wsSend(s, m) == [ s EXCEPT !.log = Append(@, m) ]

\* ws.close(): the socket starts its closing handshake
wsClose(s) ==
  [ s EXCEPT !.log = Append(@, "close"),
             !.wsState = IF @ \in {"connecting", "open"} THEN "closing" ELSE @ ]

resolve(s, r) ==
  [ s EXCEPT !.log = Append(@, "resolve"),
             !.outcome = IF @ = NoResult THEN [kind |-> "resolved", result |-> r] ELSE @ ]

reject(s, e) ==
  [ s EXCEPT !.log = Append(@, "reject"),
             !.outcome = IF @ = NoResult THEN [kind |-> "rejected", err |-> e] ELSE @ ]

\* the condition of checkComplete apart from !settled
CompletionRuleNoProgress(pr, highest, last) == highest = 0 \/ last >= highest
CompletionRuleStrict(pr, highest, last) == pr /\ (highest = 0 \/ last > highest)
CompletionRule(pr, highest, last) == pr /\ (highest = 0 \/ last >= highest)

checkComplete(s) ==
  IF ~s.settled /\ CompletionRule(s.progressReceived, s.highestTxId, s.lastSeenTxId)
    THEN LET s1 == settle([ s EXCEPT !.settled = TRUE ])
             s2 == wsClose(wsSend(s1, "complete"))
         IN  resolve(s2, buildResult(s2))
    ELSE s

\* ws.on('open')
onOpen(s) == wsSend([ s EXCEPT !.wsState = "open" ], "connection_init")

\* message 'connection_ack'
onConnectionAck(s) == wsSend(s, "subscribe")

\* message 'next' carrying an UnshieldedTransaction; onProgress is supplied and
\* its arguments and the value of settled at its call are recorded
onTransactionCheckFirst(s, tx) ==
  LET s1 == [ s EXCEPT !.txCount = @ + 1,
                       !.lastSeenTxId = Max(@, tx.id) ]
      s2 == checkComplete(
              [ s1 EXCEPT !.utxos = ApplySpent(ApplyCreated(@, tx.createdUtxos),
                                               tx.spentUtxos) ])
  IN  [ s2 EXCEPT !.onProgressCount = @ + 1,
                  !.onProgressLast = << s2.lastSeenTxId, s2.highestTxId >>,
                  !.onProgressSawSettled = s2.settled ]
onTransaction(s, tx) ==
  LET s1 == [ s EXCEPT !.txCount = @ + 1,
                       !.lastSeenTxId = Max(@, tx.id) ]
      s2 == [ s1 EXCEPT !.utxos = ApplySpent(ApplyCreated(@, tx.createdUtxos),
                                             tx.spentUtxos) ]
      s3 == [ s2 EXCEPT !.onProgressCount = @ + 1,
                        !.onProgressLast = << s2.lastSeenTxId, s2.highestTxId >>,
                        !.onProgressSawSettled = s2.settled ]
  IN  checkComplete(s3)

\* message 'next' carrying an UnshieldedTransactionsProgress
onProgressFrame(s, highestTransactionId) ==
  checkComplete([ s EXCEPT !.highestTxId = highestTransactionId,
                           !.progressReceived = TRUE ])

\* message 'next' with payload.errors
onNextErrors(s) ==
  IF ~s.settled
    THEN reject(wsClose(settle([ s EXCEPT !.settled = TRUE ])), "GraphQL error")
    ELSE s

\* message 'error'
onErrorMessageUnguarded(s) ==
  reject(wsClose(settle([ s EXCEPT !.settled = TRUE ])), "GraphQL subscription error")
onErrorMessage(s) ==
  IF ~s.settled
    THEN reject(wsClose(settle([ s EXCEPT !.settled = TRUE ])),
                "GraphQL subscription error")
    ELSE s

\* ws.on('error'): the library tears the socket down after emitting it
onSocketError(s) ==
  LET s0 == [ s EXCEPT !.wsState = "failed" ] IN
  IF ~s.settled
    THEN reject(settle([ s0 EXCEPT !.settled = TRUE ]), "WebSocket connection failed")
    ELSE s0

\* ws.on('close')
onSocketClose(s) ==
  LET s0 == [ s EXCEPT !.wsState = "closed" ] IN
  IF ~s.settled
    THEN reject(settle([ s0 EXCEPT !.settled = TRUE ]),
                "Indexer closed the connection before balance sync completed")
    ELSE s0

\* the setTimeout callback
onTimeoutPartial(s) ==
  LET s0 == [ s EXCEPT !.timer = "fired" ] IN
  IF ~s.settled
    THEN resolve(wsClose([ s0 EXCEPT !.settled = TRUE ]), buildResult(s0))
    ELSE s0
onTimeout(s) ==
  LET s0 == [ s EXCEPT !.timer = "fired" ] IN
  IF ~s.settled
    THEN reject(wsClose([ s0 EXCEPT !.settled = TRUE ]), "Balance check timed out")
    ELSE s0

Subscribed(s) == \E i \in 1..Len(s.log) : s.log[i] = "subscribe"

\* the socket still delivers messages: open, or closing after the client's close()
Delivering(s) == s.wsState \in {"open", "closing"}

NoScen == [ n |-> -1, k |-> 0 ]
BrokenScen == [ n |-> -2, k |-> 0 ]

Ops == { "buildFacade", "start", "dustState", "register", "dustFinalize", "dustSubmit", "dustWait",
         "quickSync", "transferTransaction", "signRecipe", "finalizeRecipe",
         "submitTransaction" }

Called(op) == calls' = [calls EXCEPT ![op] = @ + 1]

\* no checkBalance call has been made
IdleBalance ==
  /\ session = [ NewSession EXCEPT !.wsState = "none", !.timer = "none" ]
  /\ framesDelivered = 0
  /\ txFrames = 0
  /\ progFrames = 0
  /\ scen = NoScen
  /\ failureEvent = "none"

IdleReorder ==
  /\ orderA = << >>
  /\ orderB = << >>
  /\ runA = NewSession
  /\ runB = NewSession

\* ensureDust has not read the wallet state
NotSeen == [dustCoins |-> -1, nightUtxos |-> -1]

IdleTransfer ==
  /\ pc = "idle"
  /\ hasSignal = FALSE
  /\ aborted = FALSE
  /\ listening = FALSE
  /\ amount = 0
  /\ unshieldedBalance = -1
  /\ suppressing = FALSE
  /\ shutdownComplete = FALSE
  /\ stopCalls = 0
  /\ stopInFlight = FALSE
  /\ pending = NoOutcome
  /\ outcome = NoOutcome
  /\ attempt = 0
  /\ attemptErrs = << >>
  /\ calls = [op \in Ops |-> 0]
  /\ proofTimers = 0
  /\ abortedAt = "never"
  /\ dustEnsured = FALSE
  /\ dustSeen = NotSeen
  /\ stopFailed = FALSE
  /\ syncResult = "none"

\* no call of nightToMicro has been made
NoAmount == [kind |-> "none"]
NotConverted == [kind |-> "pending"]

IdleAmount ==
  /\ amountNight = NoAmount
  /\ microResult = NotConverted

\* no call of resolveNetworkName has been made
NoCtx == [kind |-> "none"]
NotResolved == [kind |-> "pending"]

IdleNetwork ==
  /\ ctx = NoCtx
  /\ netResult = NotResolved

\* the invocations of captureCommand of the model
MaxCalls == 2
Calls == 1..MaxCalls

\* an invocation that has not been made
IdleCall ==
  [ pc |-> "idle", originalStderr |-> "none", chunks |-> << >>, writes |-> 0,
    found |-> "none", handler |-> [kind |-> "none"], result |-> [kind |-> "none"] ]

IdleCapture ==
  /\ stderrWrite = "real"
  /\ captureTarget = 0
  /\ cap = [p \in Calls |-> IdleCall]
  /\ stdoutLog = << >>

IdleOthers ==
  /\ IdleAmount
  /\ IdleNetwork
  /\ IdleCapture

\* no frame is being fed
NoFrame ==
  [ kind |-> "none",
    tx |-> [ id |-> 0, createdUtxos |-> << >>, spentUtxos |-> << >> ],
    highestTransactionId |-> 0 ]

IdleFold ==
  /\ fold = [ NewSession EXCEPT !.wsState = "none", !.timer = "none" ]
  /\ prevFold = fold
  /\ lastFrame = NoFrame
  /\ ignoredSpends = {}
  /\ folded = 0

\* no dust command has been run
IdleDust ==
  /\ dustPc = "idle"
  /\ subcommand = "none"
  /\ dustHasSignal = FALSE
  /\ dustAborted = FALSE
  /\ dustListening = FALSE
  /\ dustBuilt = FALSE
  /\ dustStopCalls = 0
  /\ abortStop = FALSE
  /\ finalStop = FALSE
  /\ dustPending = NoOutcome
  /\ dustOutcome = NoOutcome

IdleLate ==
  /\ IdleFold
  /\ IdleDust

Init ==
  /\ IdleTransfer
  /\ IdleLate
  /\ IdleBalance
  /\ IdleReorder
  /\ IdleOthers

(***************************************************************************)
(* executeTransfer (lib/transfer.ts)                                       *)
(***************************************************************************)

\* signal?.aborted, the checkpoint between two steps
CheckpointSkipped == FALSE
Checkpoint == hasSignal /\ aborted

\* the guard of cleanup(): if (!shutdownComplete)
CleanupGuardNever == TRUE
CleanupGuard == ~shutdownComplete

\* the balance check: if (unshieldedBalance < amount) throw
InsufficientBalanceReversed(b, a) == a < b
InsufficientBalance(b, a) == b < a

\* buildAndSubmitTransfer: if (attempt > 1) await quickSync(bundle)
NeedsQuickSyncAlways(n) == n >= 1
NeedsQuickSync(n) == n > 1

\* buildAndSubmitTransfer: isStaleUtxo && attempt < MAX_RETRY_ATTEMPTS
RetryAllowedAnyError(err, n) == n < MAX_RETRY_ATTEMPTS
RetryAllowed(err, n) == isStaleUtxo(err) /\ n < MAX_RETRY_ATTEMPTS

\* suspend on the call of a facade operation
Goto(p, op) ==
  /\ pc' = p
  /\ Called(op)
  /\ UNCHANGED << listening, suppressing, shutdownComplete, stopCalls,
                  stopInFlight, pending, outcome >>

\* the finally block: remove the abort listener, unsuppress(), await cleanup()
Finish(o) ==
  /\ listening' = FALSE
  /\ suppressing' = FALSE
  /\ UNCHANGED calls
  /\ IF CleanupGuard
       THEN /\ shutdownComplete' = TRUE
            /\ stopCalls' = stopCalls + 1
            /\ stopInFlight' = TRUE
            /\ pending' = o
            /\ pc' = "teardown"
            /\ UNCHANGED outcome
       ELSE /\ pc' = "done"
            /\ outcome' = o
            /\ UNCHANGED << shutdownComplete, stopCalls, stopInFlight, pending >>

\* the head of the for loop of buildAndSubmitTransfer for attempt n
StartAttempt(n, errs) ==
  /\ attempt' = n
  /\ attemptErrs' = errs
  /\ IF n > MAX_RETRY_ATTEMPTS
       THEN Finish(Rejected(errs[Len(errs)]))
       ELSE IF NeedsQuickSync(n)
              THEN Goto("quickSync", "quickSync")
              ELSE Goto("build", "transferTransaction")

\* the catch block of buildAndSubmitTransfer
Catch(err) ==
  LET errs == Append(attemptErrs, err) IN
  IF RetryAllowed(err, attempt)
    THEN StartAttempt(attempt + 1, errs)
    ELSE /\ attemptErrs' = errs
         /\ UNCHANGED attempt
         /\ Finish(Rejected(err))

\* the code after ensureDust returned: checkpoint, then buildAndSubmitTransfer
AfterDust ==
  /\ dustEnsured' = TRUE
  /\ IF Checkpoint
       THEN Finish(Rejected(CancelledError)) /\ UNCHANGED << attempt, attemptErrs >>
       ELSE StartAttempt(1, << >>)

\* executeTransfer(params) up to its first await
Call(amountOk, a, recipientOk, sig, pre, facadeOk) ==
  /\ pc = "idle"
  /\ UNCHANGED << bvars, rvars, xvars, yvars, dustSeen, stopFailed, syncResult >>
  /\ hasSignal' = sig
  /\ aborted' = (sig /\ pre)
  /\ UNCHANGED << unshieldedBalance, shutdownComplete, stopCalls, stopInFlight, pending,
                  attempt, attemptErrs, proofTimers, abortedAt, dustEnsured >>
  /\ IF ~amountOk
       THEN /\ pc' = "done"
            /\ outcome' = Rejected(AmountError)
            /\ UNCHANGED << amount, suppressing, listening, calls >>
       ELSE /\ amount' = a
            /\ IF ~recipientOk
                 THEN /\ pc' = "done"
                      /\ outcome' = Rejected(RecipientError)
                      /\ UNCHANGED << suppressing, listening, calls >>
                 ELSE /\ suppressing' = TRUE
                      /\ IF ~facadeOk
                           THEN /\ pc' = "done"
                                /\ outcome' = Rejected(FacadeError)
                                /\ Called("buildFacade")
                                /\ UNCHANGED listening
                           ELSE /\ listening' = sig
                                /\ pc' = "start"
                                /\ calls' = [calls EXCEPT !["buildFacade"] = @ + 1,
                                                          !["start"] = @ + 1]
                                /\ UNCHANGED outcome

\* the abort event of the signal: onAbort runs cleanup() if still registered
Abort ==
  /\ pc # "idle"
  /\ UNCHANGED << bvars, rvars, xvars, yvars, dustSeen, stopFailed, syncResult >>
  /\ hasSignal /\ ~aborted
  /\ aborted' = TRUE
  /\ abortedAt' = pc
  /\ listening' = FALSE
  /\ IF listening /\ CleanupGuard
       THEN /\ shutdownComplete' = TRUE
            /\ stopCalls' = stopCalls + 1
            /\ stopInFlight' = TRUE
       ELSE UNCHANGED << shutdownComplete, stopCalls, stopInFlight >>
  /\ UNCHANGED << pc, hasSignal, amount, unshieldedBalance, suppressing, pending, outcome,
                  attempt, attemptErrs, calls, proofTimers, dustEnsured >>

\* cleanup(): try { await stopFacade(bundle) } catch { }, seen from the finally
\* block that carries the outcome o
AfterStopMasked(ok, o) == IF ok THEN o ELSE Rejected(StopError)
AfterStop(ok, o) == o

\* a stopFacade promise settles
StopSettles(ok) ==
  /\ stopInFlight
  /\ UNCHANGED << bvars, rvars, xvars, yvars, dustSeen, syncResult >>
  /\ stopInFlight' = FALSE
  /\ stopFailed' = (stopFailed \/ ~ok)
  /\ IF pc = "teardown"
       THEN pc' = "done" /\ outcome' = AfterStop(ok, pending)
       ELSE UNCHANGED << pc, outcome >>
  /\ UNCHANGED << hasSignal, aborted, listening, amount, unshieldedBalance, suppressing,
                  shutdownComplete, stopCalls, pending, attempt, attemptErrs,
                  calls, proofTimers, abortedAt, dustEnsured >>

\* startAndSyncFacade: await facade.start(...)
StartSettles(ok) ==
  /\ pc = "start"
  /\ UNCHANGED << bvars, rvars, xvars, yvars, dustSeen, stopFailed, syncResult >>
  /\ IF ok
       THEN /\ pc' = "sync"
            /\ UNCHANGED << listening, suppressing, shutdownComplete, stopCalls,
                            stopInFlight, pending, outcome, calls >>
       ELSE Finish(Rejected(FacadeError))
  /\ UNCHANGED << hasSignal, aborted, amount, unshieldedBalance, attempt, attemptErrs,
                  proofTimers, abortedAt, dustEnsured >>

\* startAndSyncFacade: rx.timeout(SYNC_TIMEOUT_MS) fired before a synced state
SyncTimedOutIgnored(ok) == FALSE
SyncTimedOut(ok) == ~ok

\* startAndSyncFacade: the first synced state or rx.timeout(SYNC_TIMEOUT_MS);
\* then checkpoint, balance check, checkpoint, ensureDust up to its first await
SyncSettles(ok, b) ==
  /\ pc = "sync"
  /\ UNCHANGED << bvars, rvars, xvars, yvars, dustSeen, stopFailed >>
  /\ syncResult' = IF ok THEN "synced" ELSE "timeout"
  /\ UNCHANGED << hasSignal, aborted, amount, attempt, attemptErrs, proofTimers,
                  abortedAt, dustEnsured >>
  /\ IF SyncTimedOut(ok)
       THEN Finish(Rejected(RxTimeoutError)) /\ UNCHANGED unshieldedBalance
       ELSE IF Checkpoint
              THEN Finish(Rejected(CancelledError)) /\ UNCHANGED unshieldedBalance
              ELSE /\ unshieldedBalance' = b
                   /\ IF InsufficientBalance(b, amount)
                        THEN Finish(Rejected(InsufficientBalanceError))
                        ELSE IF Checkpoint
                               THEN Finish(Rejected(CancelledError))
                               ELSE Goto("dustState", "dustState")

\* ensureDust: state.dust.availableCoins.length > 0
DustAvailable(dustCoins) == dustCoins > 0

\* ensureDust: nightUtxos.length > 0
HasUnregisteredNever(nightUtxos) == FALSE
HasUnregistered(nightUtxos) == nightUtxos > 0

\* ensureDust: the first synced state, with its available dust coins and its
\* coins not registered for dust generation
DustStateSettles(ok, dustCoins, nightUtxos) ==
  /\ pc = "dustState"
  /\ UNCHANGED << bvars, rvars, xvars, yvars, stopFailed, syncResult >>
  /\ UNCHANGED << hasSignal, aborted, amount, unshieldedBalance, proofTimers, abortedAt >>
  /\ IF ~ok
       THEN /\ Finish(Rejected(FacadeError))
            /\ UNCHANGED << attempt, attemptErrs, dustEnsured, dustSeen >>
       ELSE /\ dustSeen' = [dustCoins |-> dustCoins, nightUtxos |-> nightUtxos]
            /\ IF DustAvailable(dustCoins)
                 THEN AfterDust
                 ELSE /\ UNCHANGED << attempt, attemptErrs, dustEnsured >>
                      /\ IF HasUnregistered(nightUtxos)
                           THEN Goto("register", "register")
                           ELSE Goto("dustWait", "dustWait")

\* ensureDust: registerNightUtxosForDustGeneration, finalizeRecipe, submitTransaction
RegisterSettles(ok) ==
  /\ pc \in {"register", "dustFinalize", "dustSubmit"}
  /\ UNCHANGED << bvars, rvars, xvars, yvars, dustSeen, stopFailed, syncResult >>
  /\ UNCHANGED << hasSignal, aborted, amount, unshieldedBalance, attempt, attemptErrs,
                  proofTimers, abortedAt, dustEnsured >>
  /\ IF ~ok
       THEN Finish(Rejected(FacadeError))
       ELSE CASE pc = "register" -> Goto("dustFinalize", "dustFinalize")
              [] pc = "dustFinalize" -> Goto("dustSubmit", "dustSubmit")
              [] pc = "dustSubmit" -> Goto("dustWait", "dustWait")

\* ensureDust: wait for a positive dust balance or rx.timeout(DUST_TIMEOUT_MS)
DustWaitSettles(ok) ==
  /\ pc = "dustWait"
  /\ UNCHANGED << bvars, rvars, xvars, yvars, dustSeen, stopFailed, syncResult >>
  /\ UNCHANGED << hasSignal, aborted, amount, unshieldedBalance, proofTimers, abortedAt >>
  /\ IF ok
       THEN AfterDust
       ELSE Finish(Rejected(RxTimeoutError)) /\ UNCHANGED << attempt, attemptErrs, dustEnsured >>

\* buildAndSubmitTransfer: await quickSync(bundle)
QuickSyncSettles(ok) ==
  /\ pc = "quickSync"
  /\ UNCHANGED << bvars, rvars, xvars, yvars, dustSeen, stopFailed, syncResult >>
  /\ UNCHANGED << hasSignal, aborted, amount, unshieldedBalance, proofTimers, abortedAt,
                  dustEnsured >>
  /\ IF ok
       THEN Goto("build", "transferTransaction") /\ UNCHANGED << attempt, attemptErrs >>
       ELSE Catch(RxTimeoutError)

\* buildAndSubmitTransfer: await facade.transferTransaction(...)
BuildSettles(ok, err) ==
  /\ pc = "build"
  /\ UNCHANGED << bvars, rvars, xvars, yvars, dustSeen, stopFailed, syncResult >>
  /\ UNCHANGED << hasSignal, aborted, amount, unshieldedBalance, proofTimers, abortedAt,
                  dustEnsured >>
  /\ IF ok
       THEN Goto("sign", "signRecipe") /\ UNCHANGED << attempt, attemptErrs >>
       ELSE Catch(err)

\* buildAndSubmitTransfer: await facade.signRecipe(...); then the race of
\* finalizeRecipe against a new proof-timeout timer starts
SignSettles(ok, err) ==
  /\ pc = "sign"
  /\ UNCHANGED << bvars, rvars, xvars, yvars, dustSeen, stopFailed, syncResult >>
  /\ UNCHANGED << hasSignal, aborted, amount, unshieldedBalance, abortedAt, dustEnsured >>
  /\ IF ok
       THEN /\ Goto("prove", "finalizeRecipe")
            /\ proofTimers' = proofTimers + 1
            /\ UNCHANGED << attempt, attemptErrs >>
       ELSE Catch(err) /\ UNCHANGED proofTimers

\* buildAndSubmitTransfer: finalizeRecipe settles first
ProveSettles(ok, err) ==
  /\ pc = "prove"
  /\ UNCHANGED << bvars, rvars, xvars, yvars, dustSeen, stopFailed, syncResult >>
  /\ UNCHANGED << hasSignal, aborted, amount, unshieldedBalance, proofTimers, abortedAt,
                  dustEnsured >>
  /\ IF ok
       THEN Goto("submit", "submitTransaction") /\ UNCHANGED << attempt, attemptErrs >>
       ELSE Catch(err)

\* buildAndSubmitTransfer: the proof-timeout timer of this attempt fires first
ProofTimeout ==
  /\ pc = "prove"
  /\ UNCHANGED << bvars, rvars, xvars, yvars, dustSeen, stopFailed, syncResult >>
  /\ UNCHANGED << hasSignal, aborted, amount, unshieldedBalance, abortedAt, dustEnsured >>
  /\ proofTimers' = proofTimers - 1
  /\ Catch(ProofTimeoutError)

\* buildAndSubmitTransfer: await facade.submitTransaction(finalizedTx)
SubmitSettles(ok, err) ==
  /\ pc = "submit"
  /\ UNCHANGED << bvars, rvars, xvars, yvars, dustSeen, stopFailed, syncResult >>
  /\ UNCHANGED << hasSignal, aborted, amount, unshieldedBalance, proofTimers, abortedAt,
                  dustEnsured >>
  /\ IF ok
       THEN Finish(Resolved) /\ UNCHANGED << attempt, attemptErrs >>
       ELSE Catch(err)

Next ==
  \/ \E amountOk, recipientOk, sig, pre, facadeOk \in BOOLEAN :
       \E a \in 1..MaxAmount : Call(amountOk, a, recipientOk, sig, pre, facadeOk)
  \/ Abort
  \/ \E ok \in BOOLEAN : StopSettles(ok)
  \/ \E ok \in BOOLEAN : StartSettles(ok)
  \/ \E ok \in BOOLEAN : \E b \in 0..MaxBalance : SyncSettles(ok, b)
  \/ \E ok \in BOOLEAN : \E dustCoins, nightUtxos \in 0..MaxCoins :
       DustStateSettles(ok, dustCoins, nightUtxos)
  \/ \E ok \in BOOLEAN : RegisterSettles(ok)
  \/ \E ok \in BOOLEAN : DustWaitSettles(ok)
  \/ \E ok \in BOOLEAN : QuickSyncSettles(ok)
  \/ \E ok \in BOOLEAN : \E err \in FacadeErrors : BuildSettles(ok, err)
  \/ \E ok \in BOOLEAN : \E err \in FacadeErrors : SignSettles(ok, err)
  \/ \E ok \in BOOLEAN : \E err \in FacadeErrors : ProveSettles(ok, err)
  \/ ProofTimeout
  \/ \E ok \in BOOLEAN : \E err \in FacadeErrors : SubmitSettles(ok, err)

Spec == Init /\ [][Next]_vars

TypeOK ==
  /\ pc \in {"idle", "start", "sync", "dustState", "register", "dustFinalize",
             "dustSubmit", "dustWait", "quickSync", "build", "sign", "prove",
             "submit", "teardown", "done"}
  /\ stopCalls \in 0..2
  /\ attempt \in 0..(MAX_RETRY_ATTEMPTS + 1)
  /\ unshieldedBalance \in -1..MaxBalance

(***************************************************************************)
(* checkBalance: one session                                               *)
(***************************************************************************)

\* checkBalance(address, indexerWS, onProgress) is called
InitBalance ==
  /\ IdleTransfer
  /\ IdleLate
  /\ IdleReorder
  /\ IdleOthers
  /\ session = NewSession
  /\ framesDelivered = 0
  /\ txFrames = 0
  /\ progFrames = 0
  /\ scen = NoScen
  /\ failureEvent = "none"

\* a failure event occurs; it is recorded if it is the first one and the call
\* has not settled
Fails(kind) ==
  failureEvent' = IF failureEvent = "none" /\ ~session.settled THEN kind ELSE failureEvent

\* the socket opens
WsOpen ==
  /\ session.wsState = "connecting"
  /\ session' = onOpen(session)
  /\ UNCHANGED failureEvent
  /\ UNCHANGED << framesDelivered, txFrames, progFrames, scen, tvars, rvars, xvars, yvars >>

\* the server acknowledges the connection
ConnectionAck ==
  /\ session.wsState = "open"
  /\ ~Subscribed(session)
  /\ session' = onConnectionAck(session)
  /\ UNCHANGED failureEvent
  /\ UNCHANGED << framesDelivered, txFrames, progFrames, scen, tvars, rvars, xvars, yvars >>

\* a transaction frame is delivered
TxFrame(tx) ==
  /\ Subscribed(session) /\ Delivering(session)
  /\ framesDelivered < MaxFrames
  /\ framesDelivered' = framesDelivered + 1
  /\ session' = onTransaction(session, tx)
  /\ IF session.settled
       THEN UNCHANGED << txFrames, scen >>
       ELSE /\ txFrames' = txFrames + 1
            /\ scen' = IF scen.n >= 0 /\ tx.id = scen.k + 1 /\ scen.k < scen.n
                         THEN [ scen EXCEPT !.k = @ + 1 ]
                         ELSE BrokenScen
  /\ UNCHANGED << progFrames, failureEvent, tvars, rvars, xvars, yvars >>

\* a progress frame is delivered
ProgressFrame(h) ==
  /\ Subscribed(session) /\ Delivering(session)
  /\ framesDelivered < MaxFrames
  /\ framesDelivered' = framesDelivered + 1
  /\ session' = onProgressFrame(session, h)
  /\ IF session.settled
       THEN UNCHANGED << progFrames, scen >>
       ELSE /\ progFrames' = progFrames + 1
            /\ scen' = IF scen = NoScen THEN [ n |-> h, k |-> 0 ] ELSE BrokenScen
  /\ UNCHANGED << txFrames, failureEvent, tvars, rvars, xvars, yvars >>

\* the server reports a feed error in a 'next' message
NextErrors ==
  /\ Subscribed(session) /\ Delivering(session)
  /\ session' = onNextErrors(session)
  /\ Fails("server")
  /\ UNCHANGED << framesDelivered, txFrames, progFrames, scen, tvars, rvars, xvars, yvars >>

\* the server sends an 'error' message
ErrorMessage ==
  /\ Subscribed(session) /\ Delivering(session)
  /\ session' = onErrorMessage(session)
  /\ Fails("server")
  /\ UNCHANGED << framesDelivered, txFrames, progFrames, scen, tvars, rvars, xvars, yvars >>

\* the transport fails (connection refused, protocol or socket error)
SocketError ==
  /\ session.wsState \in {"connecting", "open", "closing"}
  /\ session' = onSocketError(session)
  /\ Fails("transport")
  /\ UNCHANGED << framesDelivered, txFrames, progFrames, scen, tvars, rvars, xvars, yvars >>

\* the socket is closed: by the peer, after a failure, or after the client's close()
SocketClose ==
  /\ session.wsState \in {"open", "closing", "failed"}
  /\ session' = onSocketClose(session)
  /\ Fails("close")
  /\ UNCHANGED << framesDelivered, txFrames, progFrames, scen, tvars, rvars, xvars, yvars >>

\* BALANCE_CHECK_TIMEOUT_MS elapse
Timeout ==
  /\ session.timer = "armed"
  /\ session' = onTimeout(session)
  /\ Fails("timeout")
  /\ UNCHANGED << framesDelivered, txFrames, progFrames, scen, tvars, rvars, xvars, yvars >>

NextBalance ==
  \/ WsOpen
  \/ ConnectionAck
  \/ \E tx \in TxFramePool : TxFrame(tx)
  \/ \E h \in 0..MaxTxId : ProgressFrame(h)
  \/ NextErrors
  \/ ErrorMessage
  \/ SocketError
  \/ SocketClose
  \/ Timeout

SpecBalance == InitBalance /\ [][NextBalance]_vars

(***************************************************************************)
(* checkBalance: two delivery orders of the same frames                    *)
(***************************************************************************)

\* the UTXO identity that the transaction with a given id touches
ReorderKeys == << "a:0", "a:1", "b:0" >>

\* transaction frames that touch only the identity of their own id, so that
\* frames with different ids touch disjoint identities
ReorderPool ==
  { f \in TxFramePool :
      /\ f.id \in 1..Len(ReorderKeys)
      /\ Len(f.createdUtxos) = 1
      /\ f.createdUtxos[1].key = ReorderKeys[f.id]
      /\ \A i \in 1..Len(f.spentUtxos) : f.spentUtxos[i] = ReorderKeys[f.id] }

TxMsg(f) == [ kind |-> "tx", tx |-> f, highestTransactionId |-> 0 ]
ProgressMsg(h) ==
  [ kind |-> "progress",
    tx |-> [ id |-> 0, createdUtxos |-> << >>, spentUtxos |-> << >> ],
    highestTransactionId |-> h ]

\* the 'next' branch of the message handler
onFrame(s, m) ==
  IF m.kind = "tx"
    THEN onTransaction(s, m.tx)
    ELSE onProgressFrame(s, m.highestTransactionId)

\* the orders of the frames of S, with one progress frame at position p
Orders(S, h, p) ==
  { [ i \in 1..(Cardinality(S) + 1) |->
        IF i < p THEN TxMsg(q[i])
        ELSE IF i = p THEN ProgressMsg(h)
        ELSE TxMsg(q[i - 1]) ] :
      q \in { r \in [ 1..Cardinality(S) -> S ] :
                \A i, j \in 1..Cardinality(S) : r[i] = r[j] => i = j } }

\* the highest transaction id the server knows: that of the newest frame
HighestId(S) == CHOOSE h \in { f.id : f \in S } : \A f \in S : f.id <= h

InitReorder ==
  /\ IdleTransfer
  /\ IdleLate
  /\ IdleBalance
  /\ IdleOthers
  /\ \E S \in SUBSET ReorderPool :
       /\ Cardinality(S) \in 2..Len(ReorderKeys)
       /\ \A f, g \in S : f.id = g.id => f = g
       /\ \E p \in 1..(Cardinality(S) + 1) :
            /\ orderA \in Orders(S, HighestId(S), p)
            /\ orderB \in Orders(S, HighestId(S), p)
  /\ runA = onConnectionAck(onOpen(NewSession))
  /\ runB = onConnectionAck(onOpen(NewSession))

\* the next frame of the first order is delivered
FeedA ==
  /\ orderA # << >>
  /\ ~runA.settled
  /\ runA' = onFrame(runA, Head(orderA))
  /\ orderA' = Tail(orderA)
  /\ UNCHANGED << orderB, runB, tvars, bvars, xvars, yvars >>

\* the next frame of the second order is delivered
FeedB ==
  /\ orderB # << >>
  /\ ~runB.settled
  /\ runB' = onFrame(runB, Head(orderB))
  /\ orderB' = Tail(orderB)
  /\ UNCHANGED << orderA, runA, tvars, bvars, xvars, yvars >>

NextReorder == FeedA \/ FeedB

SpecReorder == InitReorder /\ [][NextReorder]_vars

(***************************************************************************)
(* checkBalance: the frames of a live session, one by one, with the frame  *)
(* and the state before it kept as history                                 *)
(***************************************************************************)
MaxFold == 2

\* the identities in the spent list of a frame
SpentKeys(tx) == { tx.spentUtxos[i] : i \in 1..Len(tx.spentUtxos) }

\* the identities in the created list of a frame
CreatedKeys(tx) == { tx.createdUtxos[i].key : i \in 1..Len(tx.createdUtxos) }

\* the spends of a frame that find no entry: not in the working set before
\* the frame and not created by the frame itself
AbsentSpends(s, tx) == (SpentKeys(tx) \ DOMAIN s.utxos) \ CreatedKeys(tx)

InitFold ==
  /\ IdleTransfer
  /\ IdleBalance
  /\ IdleReorder
  /\ IdleOthers
  /\ IdleDust
  /\ fold = onConnectionAck(onOpen(NewSession))
  /\ prevFold = fold
  /\ lastFrame = NoFrame
  /\ ignoredSpends = {}
  /\ folded = 0

\* the message handler runs on a 'next' frame of the live session
FoldFrame(m) ==
  /\ fold.wsState = "open"
  /\ ~fold.settled
  /\ folded < MaxFold
  /\ folded' = folded + 1
  /\ prevFold' = fold
  /\ lastFrame' = m
  /\ fold' = onFrame(fold, m)
  /\ ignoredSpends' = IF m.kind = "tx"
                        THEN ignoredSpends \cup AbsentSpends(fold, m.tx)
                        ELSE ignoredSpends
  /\ UNCHANGED << tvars, bvars, rvars, xvars, dvars >>

NextFold ==
  \/ \E f \in TxFramePool : FoldFrame(TxMsg(f))
  \/ \E h \in 0..MaxTxId : FoldFrame(ProgressMsg(h))

SpecFold == InitFold /\ [][NextFold]_vars

(***************************************************************************)
(* dustCommand (commands/dust.ts) with dustRegister and dustStatus         *)
(***************************************************************************)

SubcommandError == Err(0, "Missing or invalid subcommand.")
WalletConfigError == Err(0, "Wallet file not found")
IntentError == Err(0, "Dust generation intent not found on transaction")

\* the result of a dust command that returned
DustReturned == [kind |-> "returned"]

\* if (!subcommand || (subcommand !== 'register' && subcommand !== 'status'))
ValidSubcommand(sub) == sub \in {"register", "status"}

\* signal?.aborted in dustRegister and dustStatus
DustCheckpoint == dustHasSignal /\ dustAborted

\* the awaited calls of dustRegister between the state read and the dust wait
RegisterSteps == << "waitForSyncedState", "createDustGenerationTransaction",
                    "addDustGenerationSignature", "finalizeTransaction",
                    "submitTransaction" >>

DustGoto(p) ==
  /\ dustPc' = p
  /\ UNCHANGED << dustListening, dustStopCalls, finalStop, dustPending, dustOutcome >>

\* the finally block of dustCommand: remove the abort listener, unsuppress(),
\* await cleanup(); cleanup() calls stopFacade(bundle) whenever it runs
DustFinish(o) ==
  /\ dustListening' = FALSE
  /\ dustStopCalls' = dustStopCalls + 1
  /\ finalStop' = TRUE
  /\ dustPending' = o
  /\ dustPc' = "teardown"
  /\ UNCHANGED dustOutcome

\* the second checkpoint of dustRegister, then the wait for generated dust
DustBeforeWait ==
  IF DustCheckpoint THEN DustFinish(Rejected(CancelledError)) ELSE DustGoto("dustWait")

\* what no step of dustRegister or dustStatus changes
DustStepFrame ==
  UNCHANGED << tvars, bvars, rvars, xvars, fvars, subcommand, dustHasSignal, dustAborted,
               dustBuilt, abortStop >>

\* dustCommand(args, signal) up to the first await
DustCall(sub, configOk, sig, pre, facadeOk) ==
  /\ dustPc = "idle"
  /\ subcommand' = sub
  /\ dustHasSignal' = sig
  /\ dustAborted' = (sig /\ pre)
  /\ UNCHANGED << tvars, bvars, rvars, xvars, fvars, dustStopCalls, abortStop, finalStop,
                  dustPending >>
  /\ IF ~ValidSubcommand(sub)
       THEN /\ dustPc' = "done"
            /\ dustOutcome' = Rejected(SubcommandError)
            /\ UNCHANGED << dustListening, dustBuilt >>
       ELSE IF ~configOk
              THEN /\ dustPc' = "done"
                   /\ dustOutcome' = Rejected(WalletConfigError)
                   /\ UNCHANGED << dustListening, dustBuilt >>
              ELSE IF ~facadeOk
                     THEN /\ dustPc' = "done"
                          /\ dustOutcome' = Rejected(FacadeError)
                          /\ UNCHANGED << dustListening, dustBuilt >>
                     ELSE /\ dustBuilt' = TRUE
                          /\ dustListening' = sig
                          /\ dustPc' = "start"
                          /\ UNCHANGED dustOutcome

\* the abort event of the signal: onAbort runs cleanup() if still registered
DustAbort ==
  /\ dustPc # "idle"
  /\ dustHasSignal /\ ~dustAborted
  /\ dustAborted' = TRUE
  /\ dustListening' = FALSE
  /\ IF dustListening
       THEN /\ dustStopCalls' = dustStopCalls + 1
            /\ abortStop' = TRUE
       ELSE UNCHANGED << dustStopCalls, abortStop >>
  /\ UNCHANGED << tvars, bvars, rvars, xvars, fvars, dustPc, subcommand, dustHasSignal,
                  dustBuilt, finalStop, dustPending, dustOutcome >>

\* the stopFacade promise of the abort listener settles (a rejection is caught)
AbortStopSettles ==
  /\ abortStop
  /\ abortStop' = FALSE
  /\ UNCHANGED << tvars, bvars, rvars, xvars, fvars, dustPc, subcommand, dustHasSignal,
                  dustAborted, dustListening, dustBuilt, dustStopCalls, finalStop,
                  dustPending, dustOutcome >>

\* the stopFacade promise awaited by the finally block settles (a rejection is
\* caught) and the promise of dustCommand settles
FinalStopSettles ==
  /\ finalStop
  /\ finalStop' = FALSE
  /\ dustPc' = "done"
  /\ dustOutcome' = dustPending
  /\ UNCHANGED << tvars, bvars, rvars, xvars, fvars, subcommand, dustHasSignal,
                  dustAborted, dustListening, dustBuilt, dustStopCalls, abortStop,
                  dustPending >>

\* startAndSyncFacade: await facade.start(...)
DustStartSettles(ok) ==
  /\ dustPc = "start"
  /\ DustStepFrame
  /\ IF ok THEN DustGoto("sync") ELSE DustFinish(Rejected(FacadeError))

\* startAndSyncFacade: the first synced state or rx.timeout(SYNC_TIMEOUT_MS);
\* then the first checkpoint
DustSyncSettles(ok) ==
  /\ dustPc = "sync"
  /\ DustStepFrame
  /\ IF SyncTimedOut(ok)
       THEN DustFinish(Rejected(RxTimeoutError))
       ELSE IF DustCheckpoint
              THEN DustFinish(Rejected(CancelledError))
              ELSE DustGoto("state")

\* the synced state is read: dustStatus prints it and returns; dustRegister
\* returns when dust is available, registers the unregistered coins if any
DustStateRead(ok, dustCoins, nightUtxos) ==
  /\ dustPc = "state"
  /\ DustStepFrame
  /\ IF ~ok
       THEN DustFinish(Rejected(FacadeError))
       ELSE IF subcommand = "status" \/ DustAvailable(dustCoins)
              THEN DustFinish(DustReturned)
              ELSE IF HasUnregistered(nightUtxos)
                     THEN DustGoto(RegisterSteps[1])
                     ELSE DustBeforeWait

\* dustRegister: one of the awaited calls of the registration settles; a
\* transaction created without its intent fails the step with IntentError
DustRegisterSettles(i, ok, err) ==
  /\ dustPc = RegisterSteps[i]
  /\ err = IntentError => i = 2
  /\ DustStepFrame
  /\ IF ~ok
       THEN DustFinish(Rejected(err))
       ELSE IF i < Len(RegisterSteps)
              THEN DustGoto(RegisterSteps[i + 1])
              ELSE DustBeforeWait

\* dustRegister: a positive dust balance or rx.timeout(DUST_TIMEOUT_MS)
DustGenerated(ok) ==
  /\ dustPc = "dustWait"
  /\ DustStepFrame
  /\ IF ok THEN DustFinish(DustReturned) ELSE DustFinish(Rejected(RxTimeoutError))

InitDust ==
  /\ IdleTransfer
  /\ IdleBalance
  /\ IdleReorder
  /\ IdleOthers
  /\ IdleLate

NextDust ==
  \/ \E sub \in {"register", "status", "other"} :
       \E configOk, sig, pre, facadeOk \in BOOLEAN : DustCall(sub, configOk, sig, pre, facadeOk)
  \/ DustAbort
  \/ AbortStopSettles
  \/ FinalStopSettles
  \/ \E ok \in BOOLEAN : DustStartSettles(ok)
  \/ \E ok \in BOOLEAN : DustSyncSettles(ok)
  \/ \E ok \in BOOLEAN : \E dustCoins, nightUtxos \in 0..MaxCoins :
       DustStateRead(ok, dustCoins, nightUtxos)
  \/ \E i \in 1..Len(RegisterSteps) : \E ok \in BOOLEAN :
       \E err \in {FacadeError, IntentError} : DustRegisterSettles(i, ok, err)
  \/ \E ok \in BOOLEAN : DustGenerated(ok)

SpecDust == InitDust /\ [][NextDust]_vars

(***************************************************************************)
(* nightToMicro (lib/transfer.ts).  A number is NaN, an infinity, or a     *)
(* finite double given as a count t of tenths of a micro-NIGHT, that is    *)
(* the double nearest to t * 10^-7.                                        *)
(***************************************************************************)
MaxTenthMicro == 64

\* 1 NIGHT = 10^6 micro-NIGHT: the 6 of toFixed(6) and padEnd(6, '0')
MicroPerNight == 1000000

\* resolution of the inputs: one digit below the micro-NIGHT
TenthsPerMicro == 10

Finite(t) == [kind |-> "finite", t |-> t]
NaN == [kind |-> "NaN"]
PosInfinity == [kind |-> "Infinity"]
NegInfinity == [kind |-> "-Infinity"]

\* 1, 1.0000001 and 100 NIGHT
AmountExamples ==
  { TenthsPerMicro * MicroPerNight,
    TenthsPerMicro * MicroPerNight + 1,
    100 * TenthsPerMicro * MicroPerNight }

Amounts ==
  { Finite(t) : t \in ((-TenthsPerMicro)..MaxTenthMicro) \cup AmountExamples }
    \cup { NaN, PosInfinity, NegInfinity }

\* the t of Amounts halfway between two micro-NIGHT whose nearest double lies
\* below the halfway point (0.0000005 is the double 4.99999999999999977e-7)
BelowTie == { 5, 35, 55, 65 }

Thrown(m) == [kind |-> "thrown", msg |-> m]
Returned(v) == [kind |-> "returned", micro |-> v]

\* amountNight <= 0 (false for NaN)
LessOrEqualZero(x) == x = NegInfinity \/ (x.kind = "finite" /\ x.t <= 0)

\* Number.isFinite(amountNight)
isFinite(x) == x.kind = "finite"

\* amountNight.toFixed(6) split at the point: the multiple of 10^-6 nearest to
\* the double, the larger one when it is exactly halfway
toFixed(t) ==
  LET q == t \div TenthsPerMicro
      r == t % TenthsPerMicro
      n == IF 2 * r > TenthsPerMicro \/ (2 * r = TenthsPerMicro /\ t \notin BelowTie)
             THEN q + 1
             ELSE q
  IN  [whole |-> n \div MicroPerNight, frac |-> n % MicroPerNight]

\* BigInt(whole + frac.padEnd(6, '0'))
microOf(str) == str.whole * MicroPerNight + str.frac

nightToMicro(x) ==
  IF LessOrEqualZero(x)
    THEN Thrown("Amount must be greater than 0")
    ELSE IF ~isFinite(x)
           THEN Thrown("Amount must be a finite number")
           ELSE LET micro == microOf(toFixed(x.t)) IN
                IF micro <= 0
                  THEN Thrown("Amount too small")
                  ELSE Returned(micro)

InitAmount ==
  /\ IdleTransfer
  /\ IdleLate
  /\ IdleBalance
  /\ IdleReorder
  /\ IdleNetwork
  /\ IdleCapture
  /\ amountNight \in Amounts
  /\ microResult = NotConverted

\* nightToMicro(amountNight) is called
Convert ==
  /\ amountNight # NoAmount
  /\ microResult = NotConverted
  /\ microResult' = nightToMicro(amountNight)
  /\ UNCHANGED << amountNight, tvars, bvars, rvars, nvars, cvars, yvars >>

NextAmount == Convert

SpecAmount == InitAmount /\ [][NextAmount]_vars

(***************************************************************************)
(* resolveNetworkName (lib/resolve-network.ts) with getFlag (lib/argv.ts), *)
(* isValidNetworkName and detectNetworkFromAddress (lib/network.ts) and    *)
(* loadCliConfig (lib/cli-config.ts).  A string is a TLA+ string and       *)
(* undefined is Undefined; an address is the sequence of its parts.        *)
(***************************************************************************)
Undefined == "<undefined>"

\* flags[key] = true: the flag was given without a value
FlagTrue == "<true>"

VALID_NETWORK_NAMES == {"preprod", "preview", "undeployed"}

isValidNetworkName(name) == name \in VALID_NETWORK_NAMES

\* the default of lib/cli-config.ts
DEFAULT_CLI_CONFIG == [network |-> "undeployed"]

\* getFlag(args, 'network')
getFlag(flags) ==
  IF flags.network = Undefined \/ flags.network = FlagTrue
    THEN Undefined
    ELSE flags.network

\* the truthiness of a string | undefined
Truthy(str) == str # Undefined /\ str # ""

NoAddress == << Undefined >>

\* address.startsWith(prefix)
StartsWith(address, prefix) ==
  /\ Len(address) >= Len(prefix)
  /\ SubSeq(address, 1, Len(prefix)) = prefix

NoDetection == "<null>"

detectNetworkFromAddress(address) ==
  IF StartsWith(address, << "mn_addr_preprod", "1" >>) THEN "preprod"
  ELSE IF StartsWith(address, << "mn_addr_preview", "1" >>) THEN "preview"
  ELSE IF StartsWith(address, << "mn_addr_undeployed", "1" >>) THEN "undeployed"
  ELSE NoDetection

NetReturned(name) == [kind |-> "returned", name |-> name]

\* loadCliConfig(configDir): the file is missing, unreadable, not JSON, or
\* JSON; JSON.parse gives null or an object, whose network is read
loadCliConfig(file) ==
  IF file.kind \in {"missing", "unreadable", "notJson"}
    THEN [kind |-> "returned", config |-> DEFAULT_CLI_CONFIG]
    ELSE IF file.kind = "null"
           THEN Thrown("TypeError: Cannot read properties of null (reading 'network')")
           ELSE [kind |-> "returned",
                 config |-> [network |->
                   IF Truthy(file.network) /\ isValidNetworkName(file.network)
                     THEN file.network
                     ELSE DEFAULT_CLI_CONFIG.network]]

resolveNetworkName(c) ==
  LET flagValue == getFlag(c.flags) IN
  IF flagValue # Undefined
    THEN IF ~isValidNetworkName(flagValue)
           THEN Thrown("Invalid network")
           ELSE NetReturned(flagValue)
    ELSE IF Truthy(c.walletNetwork) /\ isValidNetworkName(c.walletNetwork)
           THEN NetReturned(c.walletNetwork)
           ELSE IF c.address # NoAddress /\ c.address # << >>
                     /\ detectNetworkFromAddress(c.address) # NoDetection
                  THEN NetReturned(detectNetworkFromAddress(c.address))
                  ELSE LET cliConfig == loadCliConfig(c.file) IN
                       IF cliConfig.kind = "thrown"
                         THEN cliConfig
                         ELSE IF Truthy(cliConfig.config.network)
                                   /\ isValidNetworkName(cliConfig.config.network)
                                THEN NetReturned(cliConfig.config.network)
                                ELSE NetReturned("undeployed")

\* the inputs
NetworkStrings == VALID_NETWORK_NAMES \cup {"mainnet", ""}

FlagValues == {Undefined, FlagTrue} \cup NetworkStrings

Addresses ==
  { NoAddress, << >>,
    << "mn_addr_preprod", "1", "q" >>,
    << "mn_addr_preview", "1", "q" >>,
    << "mn_addr_undeployed", "1", "q" >>,
    << "mn_addr_test", "1", "q" >>,
    << "mn_addr_preprod", "q" >>,
    << "mn_shield-addr_preprod", "1", "q" >> }

ConfigFiles ==
  { [kind |-> k, network |-> Undefined] : k \in {"missing", "unreadable", "notJson", "null"} }
    \cup { [kind |-> "object", network |-> n] : n \in {Undefined} \cup NetworkStrings }

Contexts ==
  [ kind : {"ctx"},
    flags : [network : FlagValues],
    walletNetwork : {Undefined} \cup NetworkStrings,
    address : Addresses,
    file : ConfigFiles ]

InitNetwork ==
  /\ IdleTransfer
  /\ IdleLate
  /\ IdleBalance
  /\ IdleReorder
  /\ IdleAmount
  /\ IdleCapture
  /\ ctx \in Contexts
  /\ netResult = NotResolved

\* resolveNetworkName(ctx) is called
Resolve ==
  /\ ctx # NoCtx
  /\ netResult = NotResolved
  /\ netResult' = resolveNetworkName(ctx)
  /\ UNCHANGED << ctx, tvars, bvars, rvars, avars, cvars, yvars >>

NextNetwork == Resolve

SpecNetwork == InitNetwork /\ [][NextNetwork]_vars

(***************************************************************************)
(* captureCommand (lib/run-command.ts) with setCaptureTarget and           *)
(* writeJsonResult (lib/json-output.ts).  Invocation p runs a handler that *)
(* writes the JSON text p; the invocations follow one another.             *)
(***************************************************************************)
MaxWrites == 2

HandlerError == "Wallet file not found"
HandlerErrors == {HandlerError, "Operation cancelled"}

\* no invocation is between its call and its exit
NoneRunning == \A p \in Calls : cap[p].pc # "running"

\* writeJsonResult(data): to the capture target if one is set, else to stdout
writeJsonResult(json) ==
  IF captureTarget # 0
    THEN [ cap |-> [cap EXCEPT ![captureTarget].chunks = Append(@, json)],
           stdoutLog |-> stdoutLog ]
    ELSE [ cap |-> cap, stdoutLog |-> Append(stdoutLog, json) ]

\* the object {} (the JSON texts of the handlers are 1, 2, ..)
EmptyObject == 0

\* chunks.join('').trim(); if (!raw) return {}; return JSON.parse(raw): the
\* concatenation of several JSON texts is not a JSON text
parseChunks(chunks) ==
  IF chunks = << >>
    THEN [kind |-> "returned", value |-> EmptyObject]
    ELSE IF Len(chunks) = 1
           THEN [kind |-> "returned", value |-> chunks[1]]
           ELSE Thrown("SyntaxError")

\* the finally block: process.stderr.write = originalStderr
RestoredStderrNot(original, current) == current
RestoredStderr(original, current) == original

\* the finally block: setCaptureTarget(null)
ClearedTarget == 0

\* captureCommand(handler, args) up to the first await of the handler
CaptureStart(p) ==
  /\ cap[p].pc = "idle"
  /\ captureTarget' = p
  /\ stderrWrite' = "noop"
  /\ cap' = [cap EXCEPT ![p].pc = "running",
                        ![p].originalStderr = stderrWrite,
                        ![p].found = stderrWrite]
  /\ UNCHANGED << stdoutLog, tvars, bvars, rvars, avars, nvars, yvars >>

\* the handler of invocation p calls writeJsonResult
HandlerWrites(p) ==
  /\ cap[p].pc = "running"
  /\ cap[p].writes < MaxWrites
  /\ LET w == writeJsonResult(p) IN
       /\ cap' = [w.cap EXCEPT ![p].writes = @ + 1]
       /\ stdoutLog' = w.stdoutLog
  /\ UNCHANGED << stderrWrite, captureTarget, tvars, bvars, rvars, avars, nvars, yvars >>

\* the exit of captureCommand: the try block completed with r, then finally
CaptureExit(p, completion, r) ==
  /\ captureTarget' = ClearedTarget
  /\ stderrWrite' = RestoredStderr(cap[p].originalStderr, stderrWrite)
  /\ cap' = [cap EXCEPT ![p].pc = "ended", ![p].handler = completion, ![p].result = r]
  /\ UNCHANGED << stdoutLog, tvars, bvars, rvars, avars, nvars, yvars >>

\* the handler of invocation p returns
HandlerReturns(p) ==
  /\ cap[p].pc = "running"
  /\ CaptureExit(p, [kind |-> "returned"], parseChunks(cap[p].chunks))

\* the handler of invocation p throws
HandlerThrows(p, err) ==
  /\ cap[p].pc = "running"
  /\ CaptureExit(p, Thrown(err), Thrown(err))

InitCapture ==
  /\ IdleTransfer
  /\ IdleLate
  /\ IdleBalance
  /\ IdleReorder
  /\ IdleAmount
  /\ IdleNetwork
  /\ stderrWrite \in {"real", "mock"}
  /\ captureTarget = 0
  /\ cap = [p \in Calls |-> IdleCall]
  /\ stdoutLog = << >>

NextCapture ==
  \/ \E p \in Calls : NoneRunning /\ CaptureStart(p)
  \/ \E p \in Calls : HandlerWrites(p)
  \/ \E p \in Calls : HandlerReturns(p)
  \/ \E p \in Calls : \E err \in HandlerErrors : HandlerThrows(p, err)

SpecCapture == InitCapture /\ [][NextCapture]_vars

\* the tool-call handler of the MCP server awaits tool.handler(params) for each
\* request as it arrives: a second invocation may start while the first one is
\* suspended in its handler
NextOverlap ==
  \/ \E p \in Calls : CaptureStart(p)
  \/ \E p \in Calls : HandlerWrites(p)
  \/ \E p \in Calls : HandlerReturns(p)
  \/ \E p \in Calls : \E err \in HandlerErrors : HandlerThrows(p, err)

SpecOverlap == InitCapture /\ [][NextOverlap]_vars

(***************************************************************************)
(* Properties of executeTransfer                                           *)
(***************************************************************************)

FeeTokenOps == {"dustState", "register", "dustFinalize", "dustSubmit", "dustWait"}
TransferOps == {"quickSync", "transferTransaction", "signRecipe", "finalizeRecipe",
                "submitTransaction"}
DustPcs == {"dustState", "register", "dustFinalize", "dustSubmit", "dustWait"}
LoopPcs == {"quickSync", "build", "sign", "prove", "submit"}

NoCalls(ops) == \A op \in ops : calls[op] = 0

\* C1: when the balance read from the synced state is below the requested
\* amount, no fee-token operation (dust-state read, registration, dust wait)
\* and no build/sign/prove/submit call is ever made in the run and the run
\* ends with the insufficient-balance error; a balance equal to the amount
\* does not fail the check.
C1_PreCheckOrdering ==
  /\ (unshieldedBalance # -1 /\ unshieldedBalance < amount)
       => /\ NoCalls(FeeTokenOps \cup TransferOps)
          /\ pc \in {"teardown", "done"}
          /\ pc = "teardown" => pending = Rejected(InsufficientBalanceError)
          /\ pc = "done" => outcome = Rejected(InsufficientBalanceError)
  /\ (unshieldedBalance # -1 /\ unshieldedBalance >= amount)
       => /\ pending # Rejected(InsufficientBalanceError)
          /\ outcome # Rejected(InsufficientBalanceError)
          /\ calls["dustState"] = 1

C1_Witness ==
  /\ pc = "done"
  /\ unshieldedBalance # -1 /\ unshieldedBalance < amount
  /\ outcome = Rejected(InsufficientBalanceError)

C3_ReleasedExactlyOnce ==
  /\ stopCalls <= 1
  /\ (pc \in {"teardown", "done"} /\ calls["start"] = 1) => stopCalls = 1

\* the stop was started by the abort listener and the finally block ran after it
C3_Witness ==
  /\ pc = "done"
  /\ calls["start"] = 1
  /\ abortedAt \in DustPcs \cup LoopPcs \cup {"start", "sync"}
  /\ stopCalls = 1

\* C4 as stated: a signal raised during fee-token assurance ends the run with
\* the cancellation error and no build/sign/prove/submit call of the transfer.
C4_Original ==
  (pc = "done" /\ abortedAt \in DustPcs)
    => /\ outcome = Rejected(CancelledError)
       /\ NoCalls(TransferOps)

\* C4 as amended: a signal raised during fee-token assurance never lets the
\* build/sign/prove/submit step start; the run ends with the cancellation
\* error when fee-token assurance itself returns, and with the error of
\* fee-token assurance (dust-wait timeout, failed state read or registration)
\* when that fails.
C4_CancelDuringDust ==
  abortedAt \in DustPcs
    => /\ NoCalls(TransferOps)
       /\ pc \in DustPcs \cup {"teardown", "done"}
       /\ pc = "done" =>
            IF dustEnsured
              THEN outcome = Rejected(CancelledError)
              ELSE outcome \in {Rejected(RxTimeoutError), Rejected(FacadeError)}

C4_Witness ==
  /\ pc = "done"
  /\ abortedAt = "dustWait"
  /\ dustEnsured
  /\ outcome = Rejected(CancelledError)

(***************************************************************************)
(* Properties of checkBalance                                              *)
(***************************************************************************)

CloseCalls(s) == Cardinality({ i \in 1..Len(s.log) : s.log[i] = "close" })

\* the completion rule on the state of a session after a frame
RuleHolds(s, progressFrames) ==
  progressFrames >= 1 /\ (s.highestTxId = 0 \/ s.lastSeenTxId >= s.highestTxId)

Resolving == session.outcome = NoResult /\ session'.outcome.kind = "resolved"

\* C5: checkBalance resolves in the step that handles the first frame after
\* which the completion rule holds and never while the rule does not hold: a
\* stream P(n), T(1), .., T(k) has resolved iff n = 0 or k = n, with k
\* transactions counted; in the resolving step the client sends 'complete',
\* closes the socket and then resolves, in this order.
C5_CompletionExactness ==
  /\ [](/\ ~session.settled => ~RuleHolds(session, progFrames)
        /\ (scen.n >= 0 /\ (scen.n = 0 \/ scen.k = scen.n))
             => /\ session.outcome.kind = "resolved"
                /\ session.outcome.result.txCount = scen.k
        /\ (scen.n > 0 /\ scen.k < scen.n) => session.outcome.kind # "resolved")
  /\ [][Resolving =>
          /\ framesDelivered' = framesDelivered + 1
          /\ ~RuleHolds(session, progFrames)
          /\ RuleHolds(session', progFrames')
          /\ session'.log = session.log \o << "complete", "close", "resolve" >>]_vars

C5_Witness ==
  /\ scen = [ n |-> 2, k |-> 2 ]
  /\ session.outcome.kind = "resolved"
  /\ session.outcome.result.txCount = 2

\* C6: checkBalance has never resolved when no progress frame was handled; a
\* session that settled without one was rejected.
C6_NoCompletionWithoutProgress ==
  /\ session.outcome.kind = "resolved" => progFrames >= 1
  /\ (session.settled /\ progFrames = 0) => session.outcome.kind = "rejected"

C6_Witness ==
  /\ ~session.settled
  /\ progFrames = 0
  /\ txFrames >= 2
  /\ session.lastSeenTxId = MaxTxId

UnspentKeys(m) == { k \in DOMAIN m : ~m[k].spent }

RECURSIVE SumValues(_, _)
SumValues(m, S) ==
  IF S = {} THEN 0
  ELSE LET k == CHOOSE x \in S : TRUE IN m[k].value + SumValues(m, S \ {k})

SnapshotOf(m, r, n) ==
  /\ DOMAIN r.balances = { m[k].tokenType : k \in UnspentKeys(m) }
  /\ \A t \in DOMAIN r.balances :
       r.balances[t] = SumValues(m, { k \in UnspentKeys(m) : m[k].tokenType = t })
  /\ r.utxoCount = Cardinality(UnspentKeys(m))
  /\ r.txCount = n

\* C7: the snapshot that checkBalance resolves with is the per-token sum of
\* the unspent UTXOs of the working set at that moment (no entry for a token
\* without unspent UTXO), their number, and the number of transaction frames
\* handled so far.
C7_SnapshotOfWorkingSet ==
  [][Resolving => SnapshotOf(session'.utxos, session'.outcome.result, txFrames')]_vars

\* a snapshot over a working set with a spent UTXO and two token types
C7_Witness ==
  /\ session.outcome.kind = "resolved"
  /\ framesDelivered = txFrames + progFrames
  /\ \E k \in DOMAIN session.utxos : session.utxos[k].spent
  /\ session.outcome.result.utxoCount = 2
  /\ Cardinality(DOMAIN session.outcome.result.balances) = 2

\* C8: on every failure path the client has called ws.close() exactly once.
C8_ClosedExactlyOnce ==
  session.outcome.kind = "rejected" => CloseCalls(session) = 1

\* C9: once the outcome is produced no frame changes the working set, the
\* counters or the sequence numbers, and onProgress is not invoked.
C9_NoHandlerAfterOutcome ==
  [][session.outcome # NoResult =>
       /\ session'.utxos = session.utxos
       /\ session'.txCount = session.txCount
       /\ session'.lastSeenTxId = session.lastSeenTxId
       /\ session'.highestTxId = session.highestTxId
       /\ session'.onProgressCount = session.onProgressCount]_vars

\* C10: two delivery orders of the same transaction frames touching pairwise
\* disjoint UTXO identities, with the same progress frame at the same
\* position, resolve with the same balances, utxoCount and txCount.
C10_OrderIndependent ==
  (runA.outcome.kind = "resolved" /\ runB.outcome.kind = "resolved")
    => /\ runA.outcome.result.balances = runB.outcome.result.balances
       /\ runA.outcome.result.utxoCount = runB.outcome.result.utxoCount
       /\ runA.outcome.result.txCount = runB.outcome.result.txCount

(***************************************************************************)
(* Properties of buildAndSubmitTransfer and ensureDust                     *)
(***************************************************************************)

\* the forms in which the node reports the stale-input conflict: error code
\* 115, or a message that carries "115" or "stale"
StaleConflicts ==
  { Err(115, "Transaction rejected"), Err(0, "stale utxo"), Err(0, "Custom error: 115") }

\* the failure of attempt i was followed by a resynchronization and attempt i + 1
Retried(i) == i < attempt

StepStarts == {"start", "dustState", "quickSync", "transferTransaction"}

\* the signal was raised at call time or while the steps were running
RaisedDuringRun == aborted /\ abortedAt \notin {"teardown", "done"}

\* C13: cancellation is checked between every pair of consecutive steps,
\* each retry included; once the signal has been raised no step that had not
\* yet started is started (a signal already raised at call time starts no
\* synchronization, a signal raised during a submit attempt starts no
\* resynchronization or further attempt), and the run does not end with a
\* TransferResult.
C13_CancellationBetweenSteps ==
  /\ [](aborted /\ abortedAt = "never" => calls["start"] = 0)
  /\ [][aborted => \A op \in StepStarts : calls'[op] = calls[op]]_vars
  /\ [](pc = "done" /\ RaisedDuringRun => outcome # Resolved)

RegistrationOps == {"register", "dustFinalize", "dustSubmit"}
RegistrationPcs == {"register", "dustFinalize", "dustSubmit"}

\* the run has left the steps and carries the error err to its caller
EndsWith(err) ==
  /\ pc \in {"teardown", "done"}
  /\ pc = "teardown" => pending = Rejected(err)
  /\ pc = "done" => outcome = Rejected(err)

\* C14: fee-token assurance.  With fee tokens available it registers nothing
\* and does not wait.  Otherwise it submits a registration if and only if at
\* least one UTXO is not registered, and then in both cases waits until the
\* fee-token balance is positive or the timeout expires; with no unregistered
\* UTXO it submits nothing, fails only by the timeout of the wait, and after
\* that failure no transfer is built, signed, proved or submitted.
C14_FeeTokenAssurance ==
  /\ ~dustEnsured => NoCalls(TransferOps)
  /\ dustEnsured => dustSeen # NotSeen
  /\ dustSeen # NotSeen =>
       IF dustSeen.dustCoins > 0
         THEN /\ NoCalls(RegistrationOps \cup {"dustWait"})
              /\ dustEnsured
         ELSE /\ calls["register"] = (IF dustSeen.nightUtxos > 0 THEN 1 ELSE 0)
              /\ calls["dustSubmit"] <= calls["dustFinalize"]
              /\ calls["dustFinalize"] <= calls["register"]
              /\ calls["dustWait"] <= 1
              /\ dustSeen.nightUtxos = 0 => calls["dustWait"] = 1
              /\ dustSeen.nightUtxos > 0 =>
                   /\ calls["dustWait"] = 1 => calls["dustSubmit"] = 1 /\ pc # "dustSubmit"
                   /\ calls["dustWait"] = 0 => pc \in RegistrationPcs \/ EndsWith(FacadeError)
              /\ dustEnsured => calls["dustWait"] = 1
              /\ (~dustEnsured /\ calls["dustWait"] = 1) =>
                   pc = "dustWait" \/ EndsWith(RxTimeoutError)

\* no unregistered UTXO and no fee tokens: nothing was submitted and the run
\* ended with the timeout of the wait
C14_Witness ==
  /\ dustSeen = [dustCoins |-> 0, nightUtxos |-> 0]
  /\ pc = "done"
  /\ outcome = Rejected(RxTimeoutError)
  /\ calls["dustWait"] = 1
  /\ NoCalls(RegistrationOps \cup TransferOps)

\* C17: a failure of the release of the wallet handle during teardown never
\* changes the outcome seen by the caller: a run that succeeded still returns
\* its TransferResult and a run that failed still fails with its own error.
C17_ReleaseFailureIgnored ==
  (pc = "done" /\ stopFailed) =>
    /\ outcome # NoOutcome
    /\ outcome # Rejected(StopError)
    /\ pending # NoOutcome => outcome = pending
    /\ outcome = Resolved <=> calls["submitTransaction"] > 0 /\ Len(attemptErrs) < attempt
    /\ (attempt > 0 /\ Len(attemptErrs) = attempt) =>
         outcome = Rejected(attemptErrs[attempt])

\* the release failed after the last step succeeded; the caller got the result
C17_Witness ==
  /\ pc = "done"
  /\ stopFailed
  /\ abortedAt = "never"
  /\ outcome = Resolved

(***************************************************************************)
(* Properties of checkBalance: failures and the working set                *)
(***************************************************************************)

\* the errors of each kind of failure event
ErrorsOf(kind) ==
  CASE kind = "server" -> {"GraphQL error", "GraphQL subscription error"}
    [] kind = "transport" -> {"WebSocket connection failed"}
    [] kind = "close" -> {"Indexer closed the connection before balance sync completed"}
    [] kind = "timeout" -> {"Balance check timed out"}

\* a step that delivers a subscription frame
FrameStep == framesDelivered' # framesDelivered

\* C16: when a failure event occurs before the completion rule is met, the
\* call rejects with the error of that event's kind and never resolves with a
\* partial snapshot: a server feed error gives the server error, a transport
\* error or a close before completion the connection error, the expiry of the
\* budget the timeout error.  The budget runs from the start of the call: the
\* timer is armed from the start until the call settles, and no frame touches it.
C16_FailureKinds ==
  /\ [](failureEvent # "none" =>
          /\ session.outcome.kind = "rejected"
          /\ session.outcome.err \in ErrorsOf(failureEvent))
  /\ []((session.wsState # "none" /\ ~session.settled) => session.timer = "armed")
  /\ [][(FrameStep /\ ~session'.settled) => session'.timer = session.timer]_vars

\* frames were folded, the rule was not met, and the budget expired
C16_Witness ==
  /\ failureEvent = "timeout"
  /\ txFrames > 0
  /\ progFrames > 0
  /\ DOMAIN session.utxos # {}
  /\ session.outcome = [kind |-> "rejected", err |-> "Balance check timed out"]

\* C19: the stored highest-known transaction id never decreases while the
\* call is live: a progress frame that announces a lower value than an earlier
\* one leaves the stored value unchanged (and so cannot make the completion
\* rule true by lowering it).
C19_HighestNeverDecreases ==
  [][~session.settled => session'.highestTxId >= session.highestTxId]_vars

\* C20: the spent flag is monotonic: while the call is live no entry of the
\* working set is removed, and an entry marked spent stays spent whatever
\* frame follows, a frame that lists the same identity among its created
\* outputs included.
C20_SpentMonotonic ==
  [][~session.settled =>
       \A k \in DOMAIN session.utxos :
         /\ k \in DOMAIN session'.utxos
         /\ session.utxos[k].spent => session'.utxos[k].spent]_vars

(***************************************************************************)
(* Properties of nightToMicro                                              *)
(***************************************************************************)

\* the amount is finite, positive and a whole number of micro-NIGHT
ValidAmount(x) == x.kind = "finite" /\ x.t > 0 /\ x.t % TenthsPerMicro = 0

\* C11: nightToMicro accepts exactly the positive finite amounts that need at
\* most 6 fractional digits and returns amount * 10^6 for them; zero, negative
\* and non-finite amounts and amounts that need more than 6 fractional digits
\* are rejected with an error instead of being rounded.
C11_AmountValidation ==
  microResult # NotConverted =>
    IF ValidAmount(amountNight)
      THEN microResult = Returned(amountNight.t \div TenthsPerMicro)
      ELSE microResult.kind = "thrown"

(***************************************************************************)
(* Properties of resolveNetworkName                                        *)
(***************************************************************************)

\* the network named by the prefix of an address, if any
PrefixNetworks(address) ==
  { n \in VALID_NETWORK_NAMES :
      Len(address) >= 2 /\ address[1] = "mn_addr_" \o n /\ address[2] = "1" }

\* the network the priority chain selects for a context without --network
ChainChoice(c) ==
  IF c.walletNetwork \in VALID_NETWORK_NAMES THEN c.walletNetwork
  ELSE IF PrefixNetworks(c.address) # {} THEN CHOOSE n \in PrefixNetworks(c.address) : TRUE
  ELSE IF c.file.kind = "object" /\ c.file.network \in VALID_NETWORK_NAMES THEN c.file.network
  ELSE "undeployed"

\* C15: resolveNetworkName is a first-match-wins chain whose result is always
\* preprod, preview or undeployed: a valid --network flag; else a valid wallet
\* network; else the network of the address prefix; else the valid default of
\* the CLI config file; else undeployed.  An invalid wallet network and an
\* unrecognised prefix are skipped; an invalid --network value raises an error.
C15_NetworkPriority ==
  netResult # NotResolved =>
    LET given == ctx.flags.network \notin {Undefined, FlagTrue} IN
    IF given /\ ctx.flags.network \notin VALID_NETWORK_NAMES
      THEN netResult.kind = "thrown"
      ELSE /\ netResult.kind = "returned"
           /\ netResult.name \in VALID_NETWORK_NAMES
           /\ netResult.name = (IF given THEN ctx.flags.network ELSE ChainChoice(ctx))

(***************************************************************************)
(* Properties of captureCommand                                            *)
(***************************************************************************)

\* invocation p exits in this step
Exits(p) == cap[p].pc = "running" /\ cap'[p].pc = "ended"

\* C18: captureCommand leaves the process-wide output state as it found it on
\* every exit path: when it returns or throws (the error of the handler is
\* rethrown unchanged), process.stderr.write is the function that was installed
\* before the call and the capture target is null, so that later writes reach
\* the real streams.
C18_OutputStateRestored ==
  /\ [][\A p \in Calls : Exits(p) =>
          /\ stderrWrite' = cap[p].found
          /\ captureTarget' = 0
          /\ cap'[p].handler.kind = "thrown" => cap'[p].result = cap'[p].handler]_vars
  /\ [](NoneRunning => stderrWrite # "noop" /\ captureTarget = 0)

\* an invocation returned its JSON, a later one rethrew its handler's error
C18_Witness ==
  /\ NoneRunning
  /\ \E p, q \in Calls :
       /\ cap[p].result = [kind |-> "returned", value |-> p]
       /\ cap[q].result = Thrown(HandlerError)
  /\ stderrWrite = "mock"
  /\ captureTarget = 0

(***************************************************************************)
(* Properties of the frame handler of checkBalance                         *)
(***************************************************************************)

\* C21: a spend of an identity that is not in the working set is a no-op: the
\* identity does not enter the working set and the entries of the working set
\* are what the frame's other outputs make them, the transaction counter and
\* last-applied advance, no error is raised, and an identity whose spend was
\* ignored is unspent and counted once a later frame creates it.
C21_AbsentSpendIgnored ==
  lastFrame.kind = "tx" =>
    LET tx == lastFrame.tx
        absent == AbsentSpends(prevFold, tx)
    IN  /\ absent # {} =>
             /\ \A k \in absent : k \notin DOMAIN fold.utxos
             /\ DOMAIN fold.utxos = DOMAIN prevFold.utxos \cup CreatedKeys(tx)
             /\ \A k \in (DOMAIN prevFold.utxos \ CreatedKeys(tx)) \ SpentKeys(tx) :
                  fold.utxos[k] = prevFold.utxos[k]
             /\ fold.txCount = prevFold.txCount + 1
             /\ fold.lastSeenTxId = Max(prevFold.lastSeenTxId, tx.id)
             /\ fold.outcome.kind # "rejected"
        /\ \A k \in ignoredSpends :
             (k \in CreatedKeys(tx) /\ k \notin SpentKeys(tx)) =>
               /\ k \in DOMAIN fold.utxos
               /\ ~fold.utxos[k].spent
               /\ buildResult(fold).utxoCount >= 1

\* a:0 was spent before any frame created it, then created, and is unspent
C21_Witness ==
  /\ folded = 2
  /\ "a:0" \in ignoredSpends
  /\ prevFold.utxos = << >>
  /\ prevFold.txCount = 1
  /\ "a:0" \in CreatedKeys(lastFrame.tx)
  /\ "a:0" \in DOMAIN fold.utxos
  /\ ~fold.utxos["a:0"].spent

\* C22: in a live session onProgress is invoked exactly once per transaction
\* frame, before the completion check, with (last-applied, highest-known) as
\* they stand after the frame, last-applied being the maximum transaction id
\* seen so far; a progress frame does not invoke it.
C22_OnProgressPerTransaction ==
  /\ fold.onProgressCount = fold.txCount
  /\ lastFrame.kind = "tx" =>
       /\ fold.onProgressCount = prevFold.onProgressCount + 1
       /\ fold.lastSeenTxId = Max(prevFold.lastSeenTxId, lastFrame.tx.id)
       /\ fold.onProgressLast = << fold.lastSeenTxId, fold.highestTxId >>
       /\ ~fold.onProgressSawSettled
  /\ lastFrame.kind = "progress" =>
       /\ fold.onProgressCount = prevFold.onProgressCount
       /\ fold.onProgressLast = prevFold.onProgressLast

\* the transaction frame that completes the session: onProgress was invoked
\* for it, with the ids after the frame
C22_Witness ==
  /\ lastFrame.kind = "tx"
  /\ prevFold.progressReceived
  /\ fold.outcome.kind = "resolved"
  /\ fold.onProgressCount = 1
  /\ fold.onProgressLast = << lastFrame.tx.id, fold.highestTxId >>

(***************************************************************************)
(* Properties of executeTransfer: cancellation, timers and teardown        *)
(***************************************************************************)

\* C23: raising the signal while a step is in flight does not stop the wallet
\* handle underneath the step: stopFacade is called only in the teardown,
\* after the step in flight has settled.
C23_ReleaseOnlyInTeardown ==
  stopCalls > 0 => pc \in {"teardown", "done"}

StepOrder == << "buildFacade", "start", "dustState", "transferTransaction", "signRecipe",
                "finalizeRecipe", "submitTransaction" >>

\* C24: executeTransfer runs validation, handle acquisition, synchronization,
\* balance check, fee-token assurance and build/sign/prove/submit in that
\* order, a step starting only when every earlier one succeeded: an invalid
\* amount or recipient fails before the wallet handle is built or started,
\* and a timeout of the initial synchronization ends the run (no balance
\* check, no fee-token operation, no build/sign/prove/submit call).
C24_LinearOrder ==
  /\ \A i \in 1..(Len(StepOrder) - 1) : calls[StepOrder[i + 1]] > 0 => calls[StepOrder[i]] > 0
  /\ \A i \in 4..(Len(StepOrder) - 1) : calls[StepOrder[i + 1]] <= calls[StepOrder[i]]
  /\ outcome \in {Rejected(AmountError), Rejected(RecipientError)}
       => /\ NoCalls(Ops)
          /\ stopCalls = 0
          /\ syncResult = "none"
  /\ calls["start"] > 0 => (amount \in 1..MaxAmount /\ calls["buildFacade"] = 1)
  /\ syncResult = "none" => (unshieldedBalance = -1 /\ NoCalls(FeeTokenOps \cup TransferOps))
  /\ syncResult = "timeout"
       => /\ unshieldedBalance = -1
          /\ NoCalls(FeeTokenOps \cup TransferOps)
          /\ pc \in {"teardown", "done"}
          /\ pc = "teardown" => pending = Rejected(RxTimeoutError)
          /\ pc = "done" => outcome = Rejected(RxTimeoutError)
  /\ calls["dustState"] > 0
       => (syncResult = "synced" /\ ~InsufficientBalance(unshieldedBalance, amount))
  /\ ~NoCalls(TransferOps) => dustEnsured

\* the initial synchronization timed out and the run ended with that error
C24_Witness ==
  /\ pc = "done"
  /\ syncResult = "timeout"
  /\ calls["start"] = 1
  /\ outcome = Rejected(RxTimeoutError)

\* C25: the loser of every race against a timer is torn down: when
\* executeTransfer has settled, no proof-timeout timer started by one of its
\* attempts is still pending.
C25_NoProofTimerLeft ==
  pc = "done" => proofTimers = 0

(***************************************************************************)
(* Properties of checkBalance: settlement                                  *)
(***************************************************************************)

\* calls of resolve and reject made by the handlers of a session
SettleCalls(s) ==
  Cardinality({ i \in 1..Len(s.log) : s.log[i] \in {"resolve", "reject"} })

\* C26: under every interleaving of frames, server errors, transport error,
\* close and timeout the promise of checkBalance is settled at most once: the
\* handlers call resolve or reject once in total, by the first terminal
\* event, and no later event changes the outcome.
C26_SettledAtMostOnce ==
  /\ [](/\ SettleCalls(session) <= 1
        /\ session.settled <=> SettleCalls(session) = 1
        /\ session.settled <=> session.outcome # NoResult)
  /\ [][session.outcome # NoResult => session'.outcome = session.outcome]_vars

\* the call resolved, and a transaction frame and the socket's close event
\* were handled after that
C26_Witness ==
  /\ session.outcome.kind = "resolved"
  /\ session.txCount > session.outcome.result.txCount
  /\ session.wsState = "closed"

(***************************************************************************)
(* Properties of captureCommand: overlapping invocations                   *)
(***************************************************************************)

\* C27: overlapping invocations of captureCommand do not interfere: no JSON
\* text of a handler reaches the real stdout, an invocation whose handler
\* wrote its one JSON text and returned gets exactly that text back, and
\* when every invocation has finished process.stderr.write is no longer the
\* no-op and the capture target is null.
C27_OverlapIsolated ==
  /\ stdoutLog = << >>
  /\ \A p \in Calls :
       (cap[p].pc = "ended" /\ cap[p].handler.kind = "returned" /\ cap[p].writes = 1)
         => cap[p].result = [kind |-> "returned", value |-> p]
  /\ (\A p \in Calls : cap[p].pc = "ended")
       => (stderrWrite # "noop" /\ captureTarget = ClearedTarget)

(***************************************************************************)
(* Properties of executeTransfer: what has ended when its promise settles  *)
(***************************************************************************)

\* C28: when the promise of executeTransfer settles, the release of the
\* wallet handle has completed, also when the abort listener started it: no
\* stopFacade promise is still pending once the caller has the outcome.
C28_ReleaseCompletedAtSettle ==
  pc = "done" => ~stopInFlight

\* C29: the unhandledRejection handler installed by executeTransfer is removed
\* on every exit path that installed it, a throw of buildFacade included:
\* once the promise has settled the handler is no longer installed.
C29_HandlerRemovedAtSettle ==
  pc = "done" => ~suppressing

(***************************************************************************)
(* Properties of dustCommand                                               *)
(***************************************************************************)

\* C30: the dust command stops its facade exactly once on every path, also
\* when the abort signal fires while it runs: the stop of the abort listener
\* and the stop of the final teardown never both call stopFacade.
C30_DustStoppedOnce ==
  /\ dustStopCalls <= 1
  /\ (dustBuilt /\ dustPc \in {"teardown", "done"}) => dustStopCalls = 1

====
